---- MODULE Spec2Model ----
(***************************************************************************)
(* A model of examples/mcp-testing/test-mcp.py: the MCPTestClient class    *)
(* (a line-delimited JSON-RPC client over the pipes of a child process),   *)
(* the fixed script run_tests, and the __main__ block that runs it.        *)
(*                                                                         *)
(* The child process (the UI-Probe server) is the environment: it may put  *)
(* any line on its standard output at any time, close its output, or exit. *)
(***************************************************************************)
EXTENDS Integers, Sequences, FiniteSets, TLC

VARIABLES
    pc,             \* position of the program: __main__ or an API session
    step,           \* run_tests: number of the step last started (0..7)
    request_id,     \* self.request_id
    frame,          \* the activation of send_request (and of call_tool above it)
    childState,     \* self.process: "unstarted", "running" or "exited"
    childIn,        \* everything written to self.process.stdin, as text tokens
    inOpen,         \* the child still holds the read end of its stdin
    childOut,       \* lines on self.process.stdout not yet read
    outClosed,      \* the child has closed the write end of its stdout
    nreads,         \* readline() calls on self.process.stdout that returned
    eofSeen,        \* a readline() on self.process.stdout returned ''
    response,       \* run_tests: the local `response` (line 71)
    console,        \* run_tests: what lines 72-76 printed
    raised,         \* the exception propagating out of run_tests, or "none"
    terminateCalls, \* calls of self.process.terminate()
    calls           \* send_request activations started

vars == <<pc, step, request_id, frame, childState, childIn, inOpen, childOut,
          outClosed, nreads, eofSeen, response, console, raised,
          terminateCalls, calls>>

(***************************************************************************)
(* Bounds of the model.                                                    *)
(***************************************************************************)
MaxPending == 1     \* lines the child may have written and the client not read
MaxTools == 6       \* longest tools list the child answers with
MaxCalls == 3       \* API calls of one session (SessionSpec)

(***************************************************************************)
(* Program constants.                                                      *)
(***************************************************************************)
FirstRequestId == 1
ToolsShown == 5
DescriptionShown == 60

(***************************************************************************)
(* Python values, tagged with their type.  A dict is a function from its   *)
(* keys; `object` is a value json cannot serialise (a set, a file, ...).   *)
(***************************************************************************)
PyNone == [t |-> "None", v |-> <<>>]
PyStr(s) == [t |-> "str", v |-> s]
PyInt(n) == [t |-> "int", v |-> n]
PyList(s) == [t |-> "list", v |-> s]
PyDict(f) == [t |-> "dict", v |-> f]
PyObject == [t |-> "object", v |-> <<>>]
EmptyDict == PyDict(<<>>)

\* bool(v): the truth value Python gives v (used by `params or {}` and
\* `if response_line`).
Truthy(v) ==
    CASE v.t = "None" -> FALSE
      [] v.t = "str" -> v.v # ""
      [] v.t = "int" -> v.v # 0
      [] v.t = "list" -> v.v # <<>>
      [] v.t = "dict" -> DOMAIN v.v # {}
      [] OTHER -> TRUE

\* Whether json.dumps(v) succeeds (it raises TypeError on other objects).
RECURSIVE Serializable(_)
Serializable(v) ==
    CASE v.t \in {"None", "str", "int"} -> TRUE
      [] v.t = "list" -> \A i \in DOMAIN v.v : Serializable(v.v[i])
      [] v.t = "dict" -> \A k \in DOMAIN v.v : Serializable(v.v[k])
      [] OTHER -> FALSE

(***************************************************************************)
(* Text on the pipes, as tokens: a JSON document, a newline, or text that  *)
(* is not JSON.  A line is a sequence of tokens; '' is the empty sequence. *)
(***************************************************************************)
NL == [tok |-> "nl", v |-> PyNone]
Junk == [tok |-> "junk", v |-> PyNone]
Dumps(v) == <<[tok |-> "json", v |-> v]>>

\* json.loads(text): surrounding whitespace is skipped; what is left must be
\* exactly one JSON document, else JSONDecodeError.
Loads(text) ==
    LET body == SelectSeq(text, LAMBDA x : x.tok # "nl")
    IN  IF Len(body) = 1 /\ body[1].tok = "json"
        THEN [ok |-> TRUE, value |-> body[1].v]
        ELSE [ok |-> FALSE, value |-> PyNone]

(***************************************************************************)
(* send_request, lines 23-47, and call_tool, lines 49-54.                  *)
(***************************************************************************)
IdleFrame ==
    [at |-> "idle", via |-> "none", tool_name |-> "", arguments |-> PyNone,
     method |-> "", params |-> PyNone, request |-> PyNone,
     response_line |-> <<>>, ret |-> PyNone, exc |-> "none",
     entryIn |-> 0, entryReads |-> 0]

\* Lines 25-30: the request dict.
BuildRequest(method, params, id) ==
    PyDict([jsonrpc |-> PyStr("2.0"),
            method |-> PyStr(method),
            params |-> IF Truthy(params) THEN params ELSE EmptyDict,
            id |-> PyInt(id)])

\* The counter left as it is.
NextRequestId_Reuse(id) == id

\* Line 31.
NextRequestId(id) == id + 1

\* The arguments handed on as the params, unwrapped.
CallToolParams_Flat(tool_name, arguments) == arguments

\* Lines 51-54: the params call_tool hands to send_request.
CallToolParams(tool_name, arguments) ==
    PyDict([name |-> PyStr(tool_name), arguments |-> arguments])

\* Lines 25-34: entry of send_request up to the diagnostic prints.  The id
\* is taken (line 31) before json.dumps(params, indent=2) on line 34 can
\* raise TypeError.  Of the diagnostic prints (lines 33, 34 and 45) only
\* that is kept: their text goes to the terminal and nothing reads it.
EnterSendRequest(via, tool_name, arguments, method, params) ==
    /\ frame.at = "idle"
    /\ request_id' = NextRequestId(request_id)
    /\ calls' = calls + 1
    /\ frame' = [IdleFrame EXCEPT
                    !.at = IF Serializable(params) THEN "write" ELSE "raised",
                    !.exc = IF Serializable(params) THEN "none" ELSE "TypeError",
                    !.via = via,
                    !.tool_name = tool_name,
                    !.arguments = arguments,
                    !.method = method,
                    !.params = params,
                    !.request = BuildRequest(method, params, request_id),
                    !.entryIn = Len(childIn),
                    !.entryReads = nreads]

\* The request written without its newline.
RequestStr_NoNewline(request) == Dumps(request)

\* Line 37: the text written for a request.
RequestStr(request) == Dumps(request) \o <<NL>>

\* Lines 36-39: write the request and flush (the pipe is unbuffered, so the
\* text reaches the child at once).  Writing to a pipe whose reader is gone
\* raises BrokenPipeError.
WriteRequest ==
    /\ frame.at = "write"
    /\ IF inOpen
       THEN /\ childIn' = childIn \o RequestStr(frame.request)
            /\ frame' = [frame EXCEPT !.at = "read"]
       ELSE /\ childIn' = childIn
            /\ frame' = [frame EXCEPT !.at = "raised", !.exc = "BrokenPipeError"]
    /\ UNCHANGED <<pc, step, request_id, childState, inOpen, childOut,
                   outClosed, nreads, eofSeen, response, console, raised,
                   terminateCalls, calls>>

\* The line parsed without the test of line 43: json.loads('') raises.
ReadResult_RaiseOnEOF(response_line) ==
    IF Loads(response_line).ok
    THEN [at |-> "done", ret |-> Loads(response_line).value, exc |-> "none"]
    ELSE [at |-> "raised", ret |-> PyNone, exc |-> "JSONDecodeError"]

\* A line that does not parse taken for no response.
ReadResult_SwallowParseError(response_line) ==
    IF response_line # <<>> /\ Loads(response_line).ok
    THEN [at |-> "done", ret |-> Loads(response_line).value, exc |-> "none"]
    ELSE [at |-> "done", ret |-> EmptyDict, exc |-> "none"]

\* Lines 43-47: what send_request makes of the line it read.
ReadResult(response_line) ==
    IF response_line # <<>>
    THEN IF Loads(response_line).ok
         THEN [at |-> "done", ret |-> Loads(response_line).value, exc |-> "none"]
         ELSE [at |-> "raised", ret |-> PyNone, exc |-> "JSONDecodeError"]
    ELSE [at |-> "done", ret |-> EmptyDict, exc |-> "none"]

\* A read that gives up when nothing has arrived, and returns {}.
ReadResponse_Timeout ==
    /\ frame.at = "read"
    /\ LET response_line == IF childOut # <<>> THEN Head(childOut) ELSE <<>>
       IN  /\ childOut' = IF childOut # <<>> THEN Tail(childOut) ELSE childOut
           /\ nreads' = nreads + 1
           /\ eofSeen' = (eofSeen \/ (response_line = <<>> /\ outClosed))
           /\ frame' = [frame EXCEPT
                  !.at = IF response_line = <<>> \/ Loads(response_line).ok
                         THEN "done" ELSE "raised",
                  !.ret = IF response_line # <<>> /\ Loads(response_line).ok
                          THEN Loads(response_line).value ELSE EmptyDict,
                  !.exc = IF response_line = <<>> \/ Loads(response_line).ok
                          THEN "none" ELSE "JSONDecodeError",
                  !.response_line = response_line]
    /\ UNCHANGED <<pc, step, request_id, childState, childIn, inOpen,
                   outClosed, response, console, raised, terminateCalls, calls>>

\* Lines 41-47: one blocking readline(), which returns the next line, or ''
\* once the child has closed its output and nothing is left; until then it
\* blocks.
ReadResponse ==
    /\ frame.at = "read"
    /\ childOut # <<>> \/ outClosed
    /\ LET response_line == IF childOut # <<>> THEN Head(childOut) ELSE <<>>
           r == ReadResult(response_line)
       IN  /\ childOut' = IF childOut # <<>> THEN Tail(childOut) ELSE childOut
           /\ nreads' = nreads + 1
           /\ eofSeen' = (eofSeen \/ response_line = <<>>)
           /\ frame' = [frame EXCEPT !.at = r.at, !.ret = r.ret, !.exc = r.exc,
                                      !.response_line = response_line]
    /\ UNCHANGED <<pc, step, request_id, childState, childIn, inOpen,
                   outClosed, response, console, raised, terminateCalls, calls>>

(***************************************************************************)
(* run_tests, lines 56-108.                                                *)
(***************************************************************************)
\* The seven calls of the script (lines 64, 71, 80, 86, 90, 97, 103).
InitializeCall ==
    [via |-> "send_request", name |-> "initialize",
     args |-> PyDict([protocolVersion |-> PyStr("0.1.0"),
                      capabilities |-> EmptyDict])]
ListToolsCall ==
    [via |-> "send_request", name |-> "tools/list", args |-> EmptyDict]
NavigateCall ==
    [via |-> "call_tool", name |-> "navigate",
     args |-> PyDict([url |-> PyStr("http://localhost:8081/test")])]
AnalyzeCall ==
    [via |-> "call_tool", name |-> "analyze_ui", args |-> EmptyDict]
VerifyCall ==
    [via |-> "call_tool", name |-> "verify_page",
     args |-> PyDict([expectedContent |-> PyList(<<PyStr("Test"), PyStr("Form")>>),
                      unexpectedContent |-> PyList(<<PyStr("404"), PyStr("Error")>>)])]
ClickCall ==
    [via |-> "call_tool", name |-> "click_button",
     args |-> PyDict([text |-> PyStr("Submit")])]
RunFlowCall ==
    [via |-> "call_tool", name |-> "run_flow",
     args |-> PyDict([goal |-> PyStr("Fill out the test form with sample data"),
                      url |-> PyStr("http://localhost:8081/test/forms")])]

\* The script with the click before the verification.
Script_ClickBeforeVerify ==
    <<InitializeCall, ListToolsCall, NavigateCall, AnalyzeCall, ClickCall,
      VerifyCall, RunFlowCall>>

\* The order in which run_tests makes them.
Script ==
    <<InitializeCall, ListToolsCall, NavigateCall, AnalyzeCall, VerifyCall,
      ClickCall, RunFlowCall>>

\* The step of the script whose response run_tests looks into (line 71).
ListToolsStep == 2

\* dict.get(key, default)
Get(d, key, default) == IF key \in DOMAIN d.v THEN d.v[key] ELSE default

FoundLine(n) == [line |-> "Found", n |-> n, name |-> PyNone, description |-> ""]
ToolLine(name, description) ==
    [line |-> "Tool", n |-> 0, name |-> name, description |-> description]

\* The string printed whole.
Prefix_NoCut(s, n) == s

\* s[:n] of a string
Prefix(s, n) == IF Len(s) <= n THEN s ELSE SubSeq(s, 1, n)

\* Lines 75-76: the loop over tools[:5], from entry i on; out is what has been
\* printed.  tool.get needs a dict, and the slice a string.
RECURSIVE PrintTools(_, _, _)
PrintTools(tools, i, out) ==
    IF i > Len(tools) \/ i > ToolsShown
    THEN [console |-> out, exc |-> "none"]
    ELSE IF tools[i].t # "dict"
    THEN [console |-> out, exc |-> "AttributeError"]
    ELSE IF Get(tools[i], "description", PyStr("")).t # "str"
    THEN [console |-> out, exc |-> "TypeError"]
    ELSE PrintTools(tools, i + 1,
             Append(out, ToolLine(Get(tools[i], "name", PyNone),
                                  Prefix(Get(tools[i], "description", PyStr("")).v,
                                         DescriptionShown))))

\* The result taken without the test of line 72: KeyError when it is absent.
Inspect_NoGuard(resp) ==
    IF resp.t # "dict"
    THEN [console |-> <<>>, exc |-> "TypeError"]
    ELSE IF "result" \notin DOMAIN resp.v
    THEN [console |-> <<>>, exc |-> "KeyError"]
    ELSE IF resp.v["result"].t # "dict"
    THEN [console |-> <<>>, exc |-> "AttributeError"]
    ELSE LET tools == Get(resp.v["result"], "tools", PyList(<<>>))
         IN  PrintTools(tools.v, 1, <<FoundLine(Len(tools.v))>>)

\* Lines 72-76, for a response that is a dict or None and whose tools, when
\* present, are a list: `"result" in response` needs a container,
\* response["result"].get a dict.
Inspect(resp) ==
    IF resp.t # "dict"
    THEN [console |-> <<>>, exc |-> "TypeError"]
    ELSE IF "result" \notin DOMAIN resp.v
    THEN [console |-> <<>>, exc |-> "none"]
    ELSE IF resp.v["result"].t # "dict"
    THEN [console |-> <<>>, exc |-> "AttributeError"]
    ELSE LET tools == Get(resp.v["result"], "tools", PyList(<<>>))
         IN  PrintTools(tools.v, 1, <<FoundLine(Len(tools.v))>>)

\* What run_tests does with the value a step's call returned: only the
\* tools/list step looks at it.
AfterStep(k, ret) ==
    IF k = ListToolsStep
    THEN Inspect(ret)
    ELSE [console |-> <<>>, exc |-> "none"]

\* run_tests issues its next call (the first one after the banner, lines 58-60).
CallStep ==
    /\ pc = "run_tests"
    /\ raised = "none"
    /\ step < Len(Script)
    /\ step' = step + 1
    /\ LET c == Script[step + 1]
       IN  IF c.via = "call_tool"
           THEN EnterSendRequest("call_tool", c.name, c.args, "tools/call",
                                 CallToolParams(c.name, c.args))
           ELSE EnterSendRequest("send_request", "", PyNone, c.name, c.args)
    /\ UNCHANGED <<pc, childState, childIn, inOpen, childOut, outClosed,
                   nreads, eofSeen, response, console, raised, terminateCalls>>

\* The call of the current step returns to run_tests, which goes on to its
\* next call; after the last one it prints line 108 and returns to __main__.
\* An exception of lines 72-76 leaves run_tests.
StepReturn ==
    /\ pc = "run_tests"
    /\ frame.at = "done"
    /\ LET a == AfterStep(step, frame.ret)
       IN  /\ console' = console \o a.console
           /\ raised' = a.exc
           /\ pc' = IF a.exc # "none" \/ step = Len(Script)
                    THEN "cleanup" ELSE "run_tests"
    /\ response' = IF step = ListToolsStep THEN frame.ret ELSE response
    /\ frame' = IdleFrame
    /\ UNCHANGED <<step, request_id, childState, childIn, inOpen, childOut,
                   outClosed, nreads, eofSeen, terminateCalls, calls>>

\* The exception ends the program with no finally clause in its way.
StepRaise_NoFinally ==
    /\ pc = "run_tests"
    /\ frame.at = "raised"
    /\ raised' = frame.exc
    /\ pc' = "exit"
    /\ frame' = IdleFrame
    /\ UNCHANGED <<step, request_id, childState, childIn, inOpen, childOut,
                   outClosed, nreads, eofSeen, response, console,
                   terminateCalls, calls>>

\* An exception of send_request is caught nowhere in run_tests: it leaves
\* run_tests and reaches the finally of __main__ (lines 123-126).
StepRaise ==
    /\ pc = "run_tests"
    /\ frame.at = "raised"
    /\ raised' = frame.exc
    /\ pc' = "cleanup"
    /\ frame' = IdleFrame
    /\ UNCHANGED <<step, request_id, childState, childIn, inOpen, childOut,
                   outClosed, nreads, eofSeen, response, console,
                   terminateCalls, calls>>

(***************************************************************************)
(* __init__, lines 9-21; cleanup, lines 110-113; __main__, lines 115-126.  *)
(***************************************************************************)
\* Lines 117-120: the prompt; input() returns once Enter is pressed.
Prompt ==
    /\ pc = "prompt"
    /\ pc' = "construct"
    /\ UNCHANGED <<step, request_id, frame, childState, childIn, inOpen,
                   childOut, outClosed, nreads, eofSeen, response, console,
                   raised, terminateCalls, calls>>

\* Line 122 with lines 12-21: Popen starts the child and the counter is set.
Launch ==
    /\ pc = "construct"
    /\ childState' = "running"
    /\ inOpen' = TRUE
    /\ request_id' = FirstRequestId
    /\ pc' = "run_tests"
    /\ UNCHANGED <<step, frame, childIn, childOut, outClosed, nreads, eofSeen,
                   response, console, raised, terminateCalls, calls>>

\* Line 122 with line 12: Popen raises (npx is not installed); the statement
\* stands before the try, so the program ends there.
LaunchFails ==
    /\ pc = "construct"
    /\ raised' = "OSError"
    /\ pc' = "exit"
    /\ UNCHANGED <<step, request_id, frame, childState, childIn, inOpen,
                   childOut, outClosed, nreads, eofSeen, response, console,
                   terminateCalls, calls>>

\* Lines 125-126 with 110-113: the finally clause calls cleanup, which calls
\* terminate() and waits for nothing; the program then ends, with the
\* exception of run_tests, if any, still propagating.
Cleanup ==
    /\ pc = "cleanup"
    /\ terminateCalls' = terminateCalls + 1
    /\ pc' = "exit"
    /\ UNCHANGED <<step, request_id, frame, childState, childIn, inOpen,
                   childOut, outClosed, nreads, eofSeen, response, console,
                   raised, calls>>

(***************************************************************************)
(* The child process: `npx mcp-ui-probe@latest start` (line 13).           *)
(***************************************************************************)
ToolNames == <<"navigate", "analyze_ui", "verify_page", "click_button",
               "run_flow", "fill_form", "wait_for", "assert_element">>

ShortDescription == "Navigate to a URL"
LongDescription ==
    "Analyze the current page and report every form, button, input and link on it"

\* Tool entries of a tools/list result: with a short description, with
\* none, with one longer than what run_tests prints.
ToolEntry(i) ==
    LET name == PyStr(ToolNames[((i - 1) % Len(ToolNames)) + 1])
    IN  CASE i % 3 = 1 -> PyDict([name |-> name, description |-> PyStr(ShortDescription)])
          [] i % 3 = 2 -> PyDict([name |-> name])
          [] OTHER -> PyDict([name |-> name, description |-> PyStr(LongDescription)])

ToolsList(n) == PyList([i \in 1..n |-> ToolEntry(i)])

ToolCounts == {0, 1, ToolsShown, MaxTools}

ResultLine(result) ==
    Dumps(PyDict([jsonrpc |-> PyStr("2.0"), id |-> PyInt(1), result |-> result]))
        \o <<NL>>

ErrorLine ==
    Dumps(PyDict([jsonrpc |-> PyStr("2.0"), id |-> PyInt(1),
                  error |-> PyDict([code |-> PyInt(-32601),
                                    message |-> PyStr("Method not found")])]))
        \o <<NL>>

\* The lines the child may write: results with a tools list, a result
\* without one, a null result, an error, the document null, a tools list
\* whose entry is no object, text that is not JSON, an empty line.
ServerLines ==
    {ResultLine(PyDict([tools |-> ToolsList(n)])) : n \in ToolCounts}
        \cup {ResultLine(EmptyDict), ResultLine(PyNone), ErrorLine,
              Dumps(PyNone) \o <<NL>>,
              ResultLine(PyDict([tools |-> PyList(<<PyStr("navigate")>>)])),
              <<Junk, NL>>, <<NL>>}

\* A session is about the requests, not about what run_tests makes of the
\* answers: there the child writes a result, or text that is not JSON.
SessionLines == {ResultLine(EmptyDict), <<Junk, NL>>}

EmittedLines == IF pc = "session" THEN SessionLines ELSE ServerLines

ServerEmit ==
    /\ childState = "running"
    /\ ~outClosed
    /\ Len(childOut) < MaxPending
    /\ \E line \in EmittedLines : childOut' = Append(childOut, line)
    /\ UNCHANGED <<pc, step, request_id, frame, childState, childIn, inOpen,
                   outClosed, nreads, eofSeen, response, console, raised,
                   terminateCalls, calls>>

\* The child closes its standard output and keeps running.
ServerCloseOut ==
    /\ childState = "running"
    /\ ~outClosed
    /\ outClosed' = TRUE
    /\ UNCHANGED <<pc, step, request_id, frame, childState, childIn, inOpen,
                   childOut, nreads, eofSeen, response, console, raised,
                   terminateCalls, calls>>

\* The child exits (on its own, or on the signal of terminate()): both of
\* its pipe ends close; what it wrote before stays readable.
ServerExit ==
    /\ childState = "running"
    /\ childState' = "exited"
    /\ outClosed' = TRUE
    /\ inOpen' = FALSE
    /\ UNCHANGED <<pc, step, request_id, frame, childIn, childOut, nreads,
                   eofSeen, response, console, raised, terminateCalls, calls>>

(***************************************************************************)
(* The program: __main__.                                                  *)
(***************************************************************************)
Init ==
    /\ pc = "prompt"
    /\ step = 0
    /\ request_id = 0
    /\ frame = IdleFrame
    /\ childState = "unstarted"
    /\ childIn = <<>>
    /\ inOpen = FALSE
    /\ childOut = <<>>
    /\ outClosed = FALSE
    /\ nreads = 0
    /\ eofSeen = FALSE
    /\ response = PyNone
    /\ console = <<>>
    /\ raised = "none"
    /\ terminateCalls = 0
    /\ calls = 0

Next ==
    \/ Prompt
    \/ Launch
    \/ LaunchFails
    \/ CallStep
    \/ WriteRequest
    \/ ReadResponse
    \/ StepReturn
    \/ StepRaise
    \/ Cleanup
    \/ ServerEmit
    \/ ServerCloseOut
    \/ ServerExit

Spec == Init /\ [][Next]_vars

(***************************************************************************)
(* A session: any caller of the class, which makes up to MaxCalls calls of *)
(* send_request and call_tool on a constructed client and catches what     *)
(* they raise.                                                             *)
(***************************************************************************)
SessionMethods == {"tools/list"}
SessionParams == {PyNone, PyDict([protocolVersion |-> PyStr("0.1.0")]), PyObject}
SessionTools == {"navigate", "click_button"}
SessionArguments == {EmptyDict, PyDict([text |-> PyStr("Submit")]),
                     PyDict([element |-> PyObject])}

SessionSendRequest ==
    /\ pc = "session"
    /\ calls < MaxCalls
    /\ \E method \in SessionMethods, params \in SessionParams :
           EnterSendRequest("send_request", "", PyNone, method, params)
    /\ UNCHANGED <<pc, step, childState, childIn, inOpen, childOut, outClosed,
                   nreads, eofSeen, response, console, raised, terminateCalls>>

SessionCallTool ==
    /\ pc = "session"
    /\ calls < MaxCalls
    /\ \E tool_name \in SessionTools, arguments \in SessionArguments :
           EnterSendRequest("call_tool", tool_name, arguments, "tools/call",
                            CallToolParams(tool_name, arguments))
    /\ UNCHANGED <<pc, step, childState, childIn, inOpen, childOut, outClosed,
                   nreads, eofSeen, response, console, raised, terminateCalls>>

\* The call is over: the caller has its value, or has caught its exception.
SessionReturn ==
    /\ pc = "session"
    /\ frame.at \in {"done", "raised"}
    /\ frame' = IdleFrame
    /\ UNCHANGED <<pc, step, request_id, childState, childIn, inOpen, childOut,
                   outClosed, nreads, eofSeen, response, console, raised,
                   terminateCalls, calls>>

\* The state __init__ leaves (lines 12-21).
SessionInit ==
    /\ pc = "session"
    /\ step = 0
    /\ request_id = FirstRequestId
    /\ frame = IdleFrame
    /\ childState = "running"
    /\ childIn = <<>>
    /\ inOpen = TRUE
    /\ childOut = <<>>
    /\ outClosed = FALSE
    /\ nreads = 0
    /\ eofSeen = FALSE
    /\ response = PyNone
    /\ console = <<>>
    /\ raised = "none"
    /\ terminateCalls = 0
    /\ calls = 0

SessionNext ==
    \/ SessionSendRequest
    \/ SessionCallTool
    \/ WriteRequest
    \/ ReadResponse
    \/ SessionReturn
    \/ ServerEmit
    \/ ServerCloseOut
    \/ ServerExit

SessionSpec == SessionInit /\ [][SessionNext]_vars

(***************************************************************************)
(* Properties.                                                             *)
(***************************************************************************)
\* The requests the child has been sent, in order, as the dicts dumped.
SentRequests ==
    LET docs == SelectSeq(childIn, LAMBDA x : x.tok = "json")
    IN  [k \in 1..Len(docs) |-> docs[k].v]

SentId(k) == SentRequests[k].v["id"].v

RunEnded == pc \in {"cleanup", "exit"}

\* C1, as claimed: the k-th request sent carries id k.
C1_KthRequestCarriesIdK ==
    \A k \in 1..Len(SentRequests) : SentId(k) = k

\* C1, amended: the k-th call of send_request takes id k; the ids of the
\* requests sent are at least 1, strictly increasing (so never used twice),
\* the k-th of them at least k, and exactly k as long as no call has raised
\* before its write.
C1_SentIdsStrictlyIncreasing ==
    /\ request_id = 1 + calls
    /\ frame.at # "idle" => frame.request.v["id"].v = calls
    /\ \A k \in 1..Len(SentRequests) :
          /\ SentId(k) >= k
          /\ SentId(k) < request_id
          /\ \A j \in 1..(k - 1) : SentId(j) < SentId(k)
    /\ frame.at \in {"read", "done"} =>
          /\ Len(SentRequests) >= 1
          /\ SentId(Len(SentRequests)) = calls
    /\ Len(SentRequests) = calls => \A k \in 1..calls : SentId(k) = k

\* C1 witness: two requests sent after a call that raised before its write.
C1_Witness ==
    /\ Len(SentRequests) = 2
    /\ calls = 3
    /\ SentId(1) = 2
    /\ SentId(2) = 3
    /\ frame.at = "done"

\* C2: a call of send_request that returns has written exactly one JSON
\* document followed by a newline and has completed exactly one readline();
\* the write comes first: when the read starts the text is written, and
\* until the write nothing has been written or read.
C2_OneWriteThenOneRead ==
    LET written == SubSeq(childIn, frame.entryIn + 1, Len(childIn))
        oneLine == /\ Len(written) = 2
                   /\ written[1].tok = "json"
                   /\ written[1].v = frame.request
                   /\ written[2].tok = "nl"
    IN  /\ frame.at = "write" => written = <<>> /\ nreads = frame.entryReads
        /\ frame.at = "read" => oneLine /\ nreads = frame.entryReads
        /\ frame.at = "done" => oneLine /\ nreads = frame.entryReads + 1

\* C2 witness: the call of the third step of run_tests has returned.
C2_Witness ==
    /\ pc = "run_tests"
    /\ step = 3
    /\ frame.at = "done"
    /\ frame.response_line # <<>>

\* C3: the request call_tool(name, args) makes has method "tools/call" and
\* params {"name": name, "arguments": args}, and that request is what gets
\* written.
C3_CallToolRequest ==
    frame.via = "call_tool" =>
        /\ frame.request.v["method"] = PyStr("tools/call")
        /\ frame.request.v["params"].t = "dict"
        /\ DOMAIN frame.request.v["params"].v = {"name", "arguments"}
        /\ frame.request.v["params"].v["name"] = PyStr(frame.tool_name)
        /\ frame.request.v["params"].v["arguments"] = frame.arguments
        /\ frame.at \in {"read", "done"} =>
              SentRequests[Len(SentRequests)] = frame.request

\* C3 witness: call_tool with empty arguments has sent its request and
\* returned.
C3_Witness ==
    /\ frame.via = "call_tool"
    /\ frame.arguments = EmptyDict
    /\ frame.tool_name = "click_button"
    /\ frame.at = "done"

\* C4: when readline() returns '' (end of stream), send_request returns the
\* empty dict and raises nothing.
C4_EndOfStreamReturnsEmpty ==
    (frame.at # "idle" /\ nreads > frame.entryReads /\ frame.response_line = <<>>) =>
        /\ frame.at = "done"
        /\ frame.ret = EmptyDict
        /\ frame.exc = "none"

\* C4 witness: a read has hit the end of the stream.
C4_Witness ==
    /\ frame.at = "done"
    /\ nreads = frame.entryReads + 1
    /\ frame.response_line = <<>>
    /\ outClosed

\* C5, as claimed: once a read of run_tests has hit the end of the stream,
\* the run still sends every request of the script and finishes normally.
C5_RunCompletesAfterEndOfStream ==
    (eofSeen /\ RunEnded) =>
        /\ raised = "none"
        /\ Len(SentRequests) = 7

\* C5, amended: a read that hits the end of the stream returns the empty
\* dict and the run goes on to the next step; from there on nothing stops
\* the run but a write that fails because the child has closed its input
\* too: the run ends either normally with all seven requests sent, or with
\* BrokenPipeError.
C5_AfterEndOfStreamOnlyWriteFails ==
    /\ (frame.at = "done" /\ frame.response_line = <<>>) => frame.ret = EmptyDict
    /\ (eofSeen /\ frame.at = "raised") =>
          frame.exc = "BrokenPipeError" /\ ~inOpen
    /\ (eofSeen /\ RunEnded) =>
          \/ raised = "none" /\ Len(SentRequests) = 7 /\ step = 7
          \/ raised = "BrokenPipeError" /\ ~inOpen /\ Len(SentRequests) < 7
    /\ (eofSeen /\ pc = "run_tests") => raised = "none"

\* C5 witness: the tools/list read hit the end of the stream and the run
\* finished normally with all seven requests sent.
C5_Witness ==
    /\ eofSeen
    /\ response = EmptyDict
    /\ pc = "exit"
    /\ raised = "none"
    /\ Len(SentRequests) = 7

\* C6: the requests run_tests sends are, in order, a prefix of initialize,
\* tools/list, and tools/call of navigate, analyze_ui, verify_page,
\* click_button, run_flow, with ids 1, 2, ...; a run that ends without an
\* exception has sent all seven and no other.
C6_SevenRequestsInOrder ==
    LET methods == <<"initialize", "tools/list", "tools/call", "tools/call",
                     "tools/call", "tools/call", "tools/call">>
        tools == <<"", "", "navigate", "analyze_ui", "verify_page",
                   "click_button", "run_flow">>
    IN  /\ Len(SentRequests) <= 7
        /\ \A k \in 1..Len(SentRequests) :
              /\ SentRequests[k].v["method"] = PyStr(methods[k])
              /\ SentId(k) = k
              /\ k >= 3 => SentRequests[k].v["params"].v["name"] = PyStr(tools[k])
        /\ (RunEnded /\ raised = "none") => Len(SentRequests) = 7

\* C6 witness: run_tests has returned normally, every read having got a line.
C6_Witness ==
    /\ pc = "exit"
    /\ raised = "none"
    /\ ~eofSeen
    /\ nreads = 7
    /\ Len(SentRequests) = 7

\* A tools/list response with a result holding a list of tools: objects
\* whose description, when they have one, is a string.
HasToolsList(resp) ==
    /\ resp.t = "dict"
    /\ "result" \in DOMAIN resp.v
    /\ resp.v["result"].t = "dict"
    /\ "tools" \in DOMAIN resp.v["result"].v
    /\ resp.v["result"].v["tools"].t = "list"
    /\ \A i \in DOMAIN resp.v["result"].v["tools"].v :
          LET tool == resp.v["result"].v["tools"].v[i]
          IN  /\ tool.t = "dict"
              /\ "description" \in DOMAIN tool.v => tool.v["description"].t = "str"

\* What the claim has run_tests print for such a response.
ExpectedReport(resp) ==
    LET tools == resp.v["result"].v["tools"].v
        n == Len(tools)
        shown == IF n < 5 THEN n ELSE 5
        name(i) == IF "name" \in DOMAIN tools[i].v THEN tools[i].v["name"] ELSE PyNone
        text(i) == IF "description" \in DOMAIN tools[i].v
                   THEN tools[i].v["description"].v ELSE ""
        cut(i) == IF Len(text(i)) > 60 THEN SubSeq(text(i), 1, 60) ELSE text(i)
    IN  <<FoundLine(n)>> \o [i \in 1..shown |-> ToolLine(name(i), cut(i))]

\* C7: for a tools/list response with a tools list of n entries run_tests
\* prints "Found n tools" and then the name and the first 60 characters of
\* the description of the first min(n, 5) tools, in order; and when the call
\* of any other step returns, run_tests prints nothing, raises nothing and
\* goes on to its next statement whatever the value returned.
C7_ToolsReport ==
    /\ [](HasToolsList(response) => console = ExpectedReport(response))
    /\ [][(pc = "run_tests" /\ frame.at = "done" /\ step # 2 /\ frame'.at = "idle")
            => /\ console' = console
               /\ raised' = "none"
               /\ step' = step
               /\ response' = response
               /\ pc' = IF step = 7 THEN "cleanup" ELSE "run_tests"]_vars

\* C7 witness: a list of six tools was reported, five of them shown, one
\* with its description cut.
C7_Witness ==
    /\ HasToolsList(response)
    /\ Len(response.v["result"].v["tools"].v) = 6
    /\ Len(console) = 6
    /\ Len(console[4].description) = 60
    /\ step = 4

\* C8: a response line that is not JSON and a write that fails raise out of
\* send_request, which returns no value; the exception leaves run_tests, and
\* from then on no request is written, no line read and no call started.
C8_ErrorsAbortTheRun ==
    /\ [](/\ (nreads > frame.entryReads /\ frame.response_line # <<>>
                 /\ ~Loads(frame.response_line).ok)
              => frame.at = "raised" /\ frame.exc = "JSONDecodeError"
          /\ frame.at = "raised" => frame.ret = PyNone
          /\ raised # "none" => RunEnded /\ frame.at = "idle")
    /\ [][(frame.at = "write" /\ ~inOpen /\ frame' # frame)
            => /\ frame'.at = "raised"
               /\ frame'.exc = "BrokenPipeError"
               /\ childIn' = childIn]_vars
    /\ [][(frame.at = "raised" \/ raised # "none")
            => /\ childIn' = childIn
               /\ nreads' = nreads
               /\ calls' = calls
               /\ step' = step
               /\ raised # "none" => raised' = raised
               /\ frame' # frame => /\ frame'.at = "idle"
                                    /\ raised' = frame.exc
                                    /\ pc' = "cleanup"]_vars

\* C8 witness: the run has ended on a response that did not parse, with
\* requests of the script left unsent.
C8_Witness ==
    /\ raised = "JSONDecodeError"
    /\ pc = "exit"
    /\ Len(SentRequests) = 3

\* C9: at most one request is outstanding, and only while send_request is
\* in its read; and while that read has no line and the child has not closed
\* its output, the client does nothing: whatever happens is the child's
\* doing, no request is written and cleanup is not reached.
C9_BlockingExchange ==
    /\ [](/\ Len(SentRequests) - nreads \in {0, 1}
          /\ Len(SentRequests) = nreads + 1 <=> frame.at = "read")
    /\ [][(frame.at = "read" /\ childOut = <<>> /\ ~outClosed)
            => UNCHANGED <<pc, step, request_id, frame, childIn, nreads,
                           eofSeen, response, console, raised,
                           terminateCalls, calls>>]_vars

\* C9 witness: the client waits in the read of its third request for a
\* child that has written nothing more and has not closed its output.
C9_Witness ==
    /\ frame.at = "read"
    /\ childOut = <<>>
    /\ ~outClosed
    /\ Len(SentRequests) = 3
    /\ nreads = 2

\* C10: terminate() is called at most once, and exactly once by the time a
\* program whose child was launched ends, after run_tests has ended
\* (returned after its seventh step, or raised); nothing is written to the
\* child after it; when the launch fails it is never called.
C10_CleanupOnce ==
    /\ [](/\ terminateCalls <= 1
          /\ pc = "exit" => (terminateCalls = 1 <=> childState # "unstarted")
          /\ pc # "exit" => terminateCalls = 0
          /\ pc = "cleanup" => /\ frame.at = "idle"
                               /\ raised # "none" \/ step = 7
          /\ raised = "OSError" => childState = "unstarted" /\ terminateCalls = 0)
    /\ [][terminateCalls >= 1 =>
            childIn' = childIn /\ calls' = calls /\ terminateCalls' = terminateCalls]_vars

\* C10 witness: the program has ended after a run that raised, with
\* terminate() called.
C10_Witness ==
    /\ pc = "exit"
    /\ raised = "BrokenPipeError"
    /\ terminateCalls = 1
    /\ step = 2
====
